---- MODULE Spec2Model ----
(***************************************************************************)
(* Figure / View / Layer composition model of aas_timeseries, the limit    *)
(* setters, and save_vega_json: the y unit, the layer colours, the data    *)
(* export, the axis domains and the marks; export_interactive_bundle.      *)
(*                                                                         *)
(* Layers are numbered 1..Len(kind) in the order the add_* calls created   *)
(* them (object identity).  The base figure is container 0, the views are  *)
(* containers 1..Len(views) in registration order.                         *)
(***************************************************************************)
EXTENDS Integers, Sequences, FiniteSets, TLC

VARIABLES
    kind,       \* kind[l]    : class of layer l (module layers)
    col,        \* col[l]     : the y column of l (column, column_lower), None without Data
    tbl,        \* tbl[l]     : the table of the Data l is bound to, None without Data
    tcol,       \* tcol[l]   : the time column of l, None without Data
    err,        \* err[l]     : the error column of a Markers layer, None if not given
    color,      \* color[l]   : the color trait of l (None or a hex string)
    owner,      \* owner[l]   : container whose add_* call created l
    parent,     \* parent[l]  : BaseLayer.parent (container, or NoParent after remove())
    visible,    \* visible[l] : the {'visible': ...} settings dict created with l
    figLayers,  \* InteractiveTimeSeriesFigure._layers (keys, in order)
    views,      \* InteractiveTimeSeriesFigure._views
    yunit,      \* InteractiveTimeSeriesFigure._yunit
    figYlim,    \* InteractiveTimeSeriesFigure._ylim
    figXlim,    \* InteractiveTimeSeriesFigure._xlim
    registry,   \* InteractiveTimeSeriesFigure._data (the tables, in order), shared with the views
    last,       \* the call just made and how it ended
    saved       \* what the call just made wrote: a save's document, NoSave otherwise

vars == <<kind, col, tbl, tcol, err, color, owner, parent, visible, figLayers, views, yunit,
          figYlim, figXlim, registry, last, saved>>

layerVars == <<kind, col, tbl, tcol, err, color, owner, parent, visible>>

(***************************************************************************)
(* Bounds                                                                  *)
(***************************************************************************)
MaxLayers == 2
MaxViews == 2
MaxSel == 2

(***************************************************************************)
(* Values                                                                  *)
(***************************************************************************)
None == "None"

Figure == 0

NoParent == 0 - 1

\* an optional list argument: None, or a list of layers
NoArg == [given |-> FALSE, val |-> <<>>]

Arg(s) == [given |-> TRUE, val |-> s]

Range(s) == {s[i] : i \in DOMAIN s}

Layers == 1..Len(kind)

Containers == 0..Len(views)

\* lists of at most MaxSel layers; a caller can name any layer it still holds
\* a reference to, and can name one twice
Selections == UNION {[1..n -> Layers] : n \in 0..MaxSel}

OK == "ok"

NotInBaseFigure == "does not exist in base figure"

NotInFigure == "is not in figure"

NotInView == "is not in view"

NoLongerInFigureView == "is no longer in a figure/view"

NotInViewVisible == "not in view"

Call(op, res) == [op |-> op, res |-> res]

NoSave == [status |-> None, yunit |-> None, before |-> <<>>, marks |-> <<>>,
           override |-> FALSE, embed |-> FALSE, minimize |-> FALSE,
           error |-> [column |-> None, units |-> None, required |-> None],
           csv |-> <<>>, json |-> FALSE, data |-> <<>>, cols |-> <<>>,
           names |-> {}, entries |-> <<>>, viewnames |-> <<>>]

(***************************************************************************)
(* Ordered-dict helpers                                                    *)
(***************************************************************************)
\* OrderedDict.pop(key): the sequence of keys without l
Pop(s, l) == SelectSeq(s, LAMBDA x : x # l)

\* a faulty variant of the dict comprehension: a key named twice is kept twice
KeysWithRepeats(s) == s

\* keys of {k: ... for k in s}: each key once, at its first position
RECURSIVE DictKeys(_)
DictKeys(s) ==
    IF s = <<>> THEN <<>>
    ELSE LET front == DictKeys(SubSeq(s, 1, Len(s) - 1))
             x == s[Len(s)]
         IN  IF x \in Range(front) THEN front ELSE Append(front, x)

(***************************************************************************)
(* View                                                                    *)
(***************************************************************************)
\* a faulty variant of View.layers: the view follows the figure's registry live
ViewLayersLive(view) == figLayers \o view.local

\* View.layers
ViewLayers(view) == view.inherited \o view.local

\* View.remove, the two branches that succeed
ViewPop(view, l) ==
    IF l \in Range(view.inherited)
    THEN [view EXCEPT !.inherited = Pop(@, l)]
    ELSE [view EXCEPT !.local = Pop(@, l)]

\* View.remove raises
ViewRemoveRaises(view, l) == l \notin Range(view.inherited) /\ l \notin Range(view.local)

(***************************************************************************)
(* add_* and add_view                                                      *)
(***************************************************************************)
\* the classes of module layers
Kinds == {"layers.Markers", "layers.Line", "layers.Range", "layers.VerticalLine",
          "layers.VerticalRange", "layers.HorizontalLine", "layers.HorizontalRange",
          "layers.Text"}

\* the kinds bound to a Data source and a column
DataKinds == {"layers.Markers", "layers.Line", "layers.Range"}

\* the kinds placed at a literal y value
ValueKinds == {"layers.HorizontalLine", "layers.HorizontalRange", "layers.Text"}

\* the columns of the time series the layers are bound to
Columns == {"flux", "flux_with_unit", "error_with_unit"}

\* BaseLayer.__init__ and the trait defaults: the new layer is Len(kind) + 1
NewLayer(p, k, c) ==
    /\ kind' = Append(kind, k)
    /\ col' = Append(col, c)
    /\ color' = Append(color, None)
    /\ owner' = Append(owner, p)
    /\ parent' = Append(parent, p)
    /\ visible' = Append(visible, TRUE)

\* the time series objects the callers hold; every one has the columns of
\* TableColumns, in that order
Tables == {"ts", "ts2"}

TableColumns == <<"time", "phase", "flux", "flux_with_unit", "error_with_unit">>

\* if id(time_series) not in self._data: self._data[id(time_series)] = Data(time_series)
Register(t) ==
    IF t = None \/ t \in Range(registry) THEN registry ELSE Append(registry, t)

VALID_TIME_MODES == {"absolute", "relative", "phase"}

\* the time mode of the figure (constructed with time_mode=None) or of view p
TimeMode(p) == IF p = Figure THEN "absolute" ELSE views[p].time_mode

\* BaseView._validate_time_column raises TypeError: column "time" is a Time,
\* "phase" and "flux" are plain arrays, the two others are Quantities in Jy and mJy
TimeColumnRaises(time_mode, x) ==
    CASE time_mode = "absolute" -> x # "time"
      [] time_mode = "relative" -> TRUE
      [] time_mode = "phase" -> x \notin {"phase", "flux"}

\* the messages of the TraitErrors of ColumnTrait.validate; the second one is
\* prefixed by the offending name
DataNotSet == "data should be set before column"

NotValidColumn == "is not a valid column name"

ColumnErrors == {DataNotSet, NotValidColumn}

\* a faulty variant of ColumnTrait.validate: any name passes once the data is set
ColumnValidateAnyName(t, value) ==
    IF value # None /\ t = None THEN DataNotSet ELSE value

\* ColumnTrait.validate(obj, value) for a layer obj whose data trait holds table
\* t (None: reading obj.data raises TraitError): the value kept, or the message
ColumnValidate(t, value) ==
    CASE value = None -> None
      [] value # None /\ t = None -> DataNotSet
      [] value # None /\ t # None /\ value \in Range(TableColumns) -> value
      [] OTHER -> NotValidColumn

\* the TraitError of a column assignment, as the caller sees it
TraitErrorCall(op, name, message) ==
    [op |-> op, res |-> "TraitError", name |-> name, message |-> message]

\* BaseView.add_markers .. add_text, on the figure (p = 0) or on view p: a layer
\* of class k on column c of table t, with error column e (Markers only) and
\* time column x
add_bound_layer(p, k, c, t, e, x) ==
    /\ Len(kind) < MaxLayers
    /\ p \in Containers
    /\ k \in Kinds
    /\ c = IF k \in DataKinds THEN c ELSE None
    /\ t = IF k \in DataKinds THEN t ELSE None
    /\ e = IF k = "layers.Markers" THEN e ELSE None
    /\ x = IF k \in DataKinds THEN x ELSE None
    /\ IF k \in DataKinds /\ TimeColumnRaises(TimeMode(p), x)
       THEN /\ last' = Call("add_layer", "TypeError")
            /\ UNCHANGED <<layerVars, registry, figLayers, views>>
       ELSE IF ColumnValidate(t, c) \in ColumnErrors
       THEN \* the Data object is registered before the layer is built and
            \* its column assigned; the layer built is dropped
            /\ last' = TraitErrorCall("add_layer", c, ColumnValidate(t, c))
            /\ registry' = Register(t)
            /\ UNCHANGED <<layerVars, figLayers, views>>
       ELSE /\ NewLayer(p, k, c)
            /\ tbl' = Append(tbl, t)
            /\ tcol' = Append(tcol, x)
            /\ err' = Append(err, e)
            /\ registry' = Register(t)
            /\ IF p = Figure
               THEN /\ figLayers' = Append(figLayers, Len(kind) + 1)
                    /\ UNCHANGED views
               ELSE /\ views' = [views EXCEPT ![p].local = Append(@, Len(kind) + 1)]
                    /\ UNCHANGED figLayers
            /\ last' = Call("add_layer", OK)
    /\ saved' = NoSave
    /\ UNCHANGED <<yunit, figYlim, figXlim>>

\* the same on the table "ts", without an error column, on the time column 'time'
add_layer(p, k, c) ==
    add_bound_layer(p, k, c, IF k \in DataKinds THEN "ts" ELSE None, None,
                    IF k \in DataKinds THEN "time" ELSE None)

\* a faulty variant of the include branch: filters the figure's registry, in figure order
InheritedInFigureOrder(empty, include, exclude) ==
    IF empty THEN <<>>
    ELSE IF include.given
    THEN SelectSeq(figLayers, LAMBDA l : l \in Range(include.val))
    ELSE IF exclude.given
    THEN SelectSeq(figLayers, LAMBDA l : l \notin Range(exclude.val))
    ELSE figLayers

\* add_view: the keys of inherited_layers
InheritedLayers(empty, include, exclude) ==
    IF empty THEN <<>>
    ELSE IF include.given
    THEN DictKeys(include.val)
    ELSE IF exclude.given
    THEN SelectSeq(figLayers, LAMBDA l : l \notin Range(exclude.val))
    ELSE figLayers

\* a faulty variant of the validation: the exclude list is not validated
AddViewRaisesIncludeOnly(empty, include, exclude) ==
    IF empty THEN FALSE
    ELSE IF include.given
    THEN \E i \in DOMAIN include.val : include.val[i] \notin Range(figLayers)
    ELSE FALSE

\* add_view raises ValueError
AddViewRaises(empty, include, exclude) ==
    IF empty THEN FALSE
    ELSE IF include.given
    THEN \E i \in DOMAIN include.val : include.val[i] \notin Range(figLayers)
    ELSE IF exclude.given
    THEN \E i \in DOMAIN exclude.val : exclude.val[i] \notin Range(figLayers)
    ELSE FALSE

\* a limit: not set, or the first two endpoints given and the ones after them
NoLim == [set |-> FALSE, lo |-> None, hi |-> None, rest |-> <<>>]

Lim(r) == [set |-> TRUE, lo |-> r[1], hi |-> r[2], rest |-> SubSeq(r, 3, Len(r))]

\* View.__init__
NewView(inherited, time_mode) ==
    [inherited |-> inherited, local |-> <<>>, ylim |-> NoLim, xlim |-> NoLim,
     time_mode |-> time_mode]

\* add_view(title, include=..., exclude=..., empty=..., time_mode=...)
add_view_in_mode(empty, include, exclude, time_mode) ==
    /\ Len(views) < MaxViews
    /\ time_mode \in VALID_TIME_MODES
    /\ IF AddViewRaises(empty, include, exclude)
       THEN /\ last' = Call("add_view", NotInBaseFigure)
            /\ UNCHANGED views
       ELSE /\ views' = Append(views, NewView(InheritedLayers(empty, include, exclude), time_mode))
            /\ last' = Call("add_view", OK)
    /\ saved' = NoSave
    /\ UNCHANGED <<layerVars, figLayers, yunit, figYlim, figXlim, registry>>

\* add_view without time_mode: the view is in absolute time mode
add_view(empty, include, exclude) == add_view_in_mode(empty, include, exclude, "absolute")

(***************************************************************************)
(* remove                                                                  *)
(***************************************************************************)
\* a faulty variant of the cascade: only the first view is visited
CascadeFirstViewOnly(vs, l) ==
    [v \in DOMAIN vs |->
        IF v = 1 /\ l \in Range(ViewLayers(vs[v])) THEN ViewPop(vs[v], l) ELSE vs[v]]

\* a faulty variant of the loop: no view is told of the removal
CascadeNone(vs, l) == vs

\* InteractiveTimeSeriesFigure.remove: the loop over the views
Cascade(vs, l) ==
    [v \in DOMAIN vs |->
        IF l \in Range(ViewLayers(vs[v])) THEN ViewPop(vs[v], l) ELSE vs[v]]

\* a faulty variant of the membership test: any layer is taken to be registered
FigureRemoveNeverRaises(l) == FALSE

\* InteractiveTimeSeriesFigure.remove raises ValueError
FigureRemoveRaises(l) == l \notin Range(figLayers)

\* the registries after InteractiveTimeSeriesFigure.remove(l)
FigureRemoveEffect(l) ==
    IF FigureRemoveRaises(l)
    THEN UNCHANGED <<figLayers, views>>
    ELSE /\ figLayers' = Pop(figLayers, l)
         /\ views' = Cascade(views, l)

Figure_remove(l) ==
    /\ l \in Layers
    /\ FigureRemoveEffect(l)
    /\ last' = Call("Figure.remove", IF FigureRemoveRaises(l) THEN NotInFigure ELSE OK)
    /\ saved' = NoSave
    /\ UNCHANGED <<layerVars, yunit, figYlim, figXlim, registry>>

\* a faulty variant of View.remove: the layer is dropped from every view that holds it
ViewRemoveEverywhere(vs, v, l) ==
    [w \in DOMAIN vs |->
        IF ViewRemoveRaises(vs[w], l) THEN vs[w] ELSE ViewPop(vs[w], l)]

\* the view list after views[v].remove(l)
ViewRemoveIn(vs, v, l) ==
    IF ViewRemoveRaises(vs[v], l) THEN vs ELSE [vs EXCEPT ![v] = ViewPop(@, l)]

View_remove(v, l) ==
    /\ v \in 1..Len(views)
    /\ l \in Layers
    /\ views' = ViewRemoveIn(views, v, l)
    /\ last' = Call("View.remove", IF ViewRemoveRaises(views[v], l) THEN NotInView ELSE OK)
    /\ saved' = NoSave
    /\ UNCHANGED <<layerVars, figLayers, yunit, figYlim, figXlim, registry>>

\* the outcome of parent().remove(l) for the container p
ContainerRemoveResult(p, l) ==
    IF p = Figure
    THEN IF FigureRemoveRaises(l) THEN NotInFigure ELSE OK
    ELSE IF ViewRemoveRaises(views[p], l) THEN NotInView ELSE OK

\* BaseLayer.remove
BaseLayer_remove(l) ==
    /\ l \in Layers
    /\ IF parent[l] = NoParent
       THEN /\ last' = Call("BaseLayer.remove", NoLongerInFigureView)
            /\ UNCHANGED <<figLayers, views, parent>>
       ELSE /\ IF parent[l] = Figure
               THEN FigureRemoveEffect(l)
               ELSE /\ views' = ViewRemoveIn(views, parent[l], l)
                    /\ UNCHANGED figLayers
            /\ parent' = IF ContainerRemoveResult(parent[l], l) = OK
                          THEN [parent EXCEPT ![l] = NoParent]
                          ELSE parent
            /\ last' = Call("BaseLayer.remove", ContainerRemoveResult(parent[l], l))
    /\ saved' = NoSave
    /\ UNCHANGED <<kind, col, tbl, tcol, err, color, owner, visible, yunit, figYlim, figXlim, registry>>

(***************************************************************************)
(* show / hide                                                             *)
(***************************************************************************)
\* the layers of the list that precede the first one the view does not hold
RECURSIVE KnownPrefix(_, _)
KnownPrefix(view, ls) ==
    IF ls = <<>> \/ ViewRemoveRaises(view, Head(ls))
    THEN <<>>
    ELSE <<Head(ls)>> \o KnownPrefix(view, Tail(ls))

\* settings['visible'] for layer l in the registry of any container that holds
\* it: add_* builds one settings dict per layer and add_view places that very
\* dict in the view's inherited layers, so every holder reads the same value
SettingsVisible(c, l) == visible[l]

\* View._set_visible (View.show, View.hide)
set_visible(v, ls, flag) ==
    /\ v \in 1..Len(views)
    /\ visible' = [l \in DOMAIN visible |->
                      IF l \in Range(KnownPrefix(views[v], ls)) THEN flag ELSE visible[l]]
    /\ last' = Call("View._set_visible",
                     IF Len(KnownPrefix(views[v], ls)) = Len(ls) THEN OK ELSE NotInViewVisible)
    /\ saved' = NoSave
    /\ UNCHANGED <<kind, col, tbl, tcol, err, color, owner, parent, figLayers, views, yunit,
                   figYlim, figXlim, registry>>

(***************************************************************************)
(* Units, limits and colour traits                                         *)
(***************************************************************************)
Units == {"one", "Jy", "mJy", "m"}

\* the physical type of a unit; two units are equivalent when it is the same
PhysicalType(u) ==
    CASE u = "one" -> "dimensionless"
      [] u \in {"Jy", "mJy"} -> "spectral flux density"
      [] u = "m" -> "length"

IsEquivalent(u, w) == PhysicalType(u) = PhysicalType(w)

\* Data.unit(colname): the unit of the column, dimensionless when it has none
DataUnit(c) ==
    CASE c = "flux" -> "one"
      [] c = "flux_with_unit" -> "Jy"
      [] c = "error_with_unit" -> "mJy"

\* Data.column_to_values(colname, unit) raises UnitsError
ColumnToValuesRaises(c, u) == ~IsEquivalent(DataUnit(c), u)

\* yunit.setter
set_yunit(u) ==
    /\ u \in Units \cup {"auto"}
    /\ yunit' = u
    /\ last' = Call("yunit.setter", OK)
    /\ saved' = NoSave
    /\ UNCHANGED <<layerVars, figLayers, views, figYlim, figXlim, registry>>

\* an endpoint of a y limit: a plain number, or a Quantity given by its unit
Endpoints == {"plain"} \cup Units

IsQuantity(e) == e \in Units

\* a faulty variant of the ylim setter: the units of two Quantities are not compared
YlimResultNoUnitCheck(lo, hi) ==
    IF IsQuantity(lo) = IsQuantity(hi) THEN OK ELSE "ValueError"

\* BaseView.ylim setter: how the assignment ends
YlimResult(lo, hi) ==
    IF IsQuantity(lo) = IsQuantity(hi)
    THEN IF IsQuantity(lo) /\ ~IsEquivalent(lo, hi) THEN "UnitsError" ELSE OK
    ELSE "ValueError"

\* BaseView.ylim setter on a value with any number of endpoints: range[0] and
\* range[1] are read, the length is not
YlimSetterResult(r) ==
    IF Len(r) < 2 THEN "IndexError" ELSE YlimResult(r[1], r[2])

\* BaseView.ylim setter, on the figure (p = 0) or on view p
set_ylim_to(p, r) ==
    /\ p \in Containers
    /\ \A i \in DOMAIN r : r[i] \in Endpoints
    /\ IF YlimSetterResult(r) = OK
       THEN IF p = Figure
            THEN /\ figYlim' = Lim(r)
                 /\ UNCHANGED views
            ELSE /\ views' = [views EXCEPT ![p].ylim = Lim(r)]
                 /\ UNCHANGED figYlim
       ELSE UNCHANGED <<figYlim, views>>
    /\ last' = Call("ylim.setter", YlimSetterResult(r))
    /\ saved' = NoSave
    /\ UNCHANGED <<layerVars, figLayers, yunit, figXlim, registry>>

\* the same on a pair
set_ylim(p, lo, hi) == set_ylim_to(p, <<lo, hi>>)

\* an endpoint of an x limit: a Time, a string that Time() parses, a plain number
XEndpoints == {"Time", "iso", "plain"}

XlimNotTwo == "ValueError: xlim should be a tuple of two elements"

XlimNotTimes == "TypeError: xlim should be a typle of two Time instances"

\* BaseView.xlim setter: how the assignment ends
XlimResult(r) ==
    IF Len(r) # 2 THEN XlimNotTwo
    ELSE IF r[1] \in {"Time", "iso"} /\ r[2] \in {"Time", "iso"} THEN OK
    ELSE XlimNotTimes

\* BaseView.xlim setter, on the figure (p = 0) or on view p; strings are stored
\* as the Time they are converted to
set_xlim(p, r) ==
    /\ p \in Containers
    /\ \A i \in DOMAIN r : r[i] \in XEndpoints
    /\ IF XlimResult(r) = OK
       THEN IF p = Figure
            THEN /\ figXlim' = Lim(<<"Time", "Time">>)
                 /\ UNCHANGED views
            ELSE /\ views' = [views EXCEPT ![p].xlim = Lim(<<"Time", "Time">>)]
                 /\ UNCHANGED figXlim
       ELSE UNCHANGED <<figXlim, views>>
    /\ last' = Call("xlim.setter", XlimResult(r))
    /\ saved' = NoSave
    /\ UNCHANGED <<layerVars, figLayers, yunit, figYlim, registry>>

\* the colour specifications a caller assigns
ColorSpecs == {"red", "black"}

\* matplotlib.colors.to_hex on the values that reach it: lower-case hex
to_hex(c) ==
    CASE c = "red" -> "#ff0000"
      [] c = "black" -> "#000000"
      [] c = "#000000" -> "#000000"
      [] c = "#A6CEE3" -> "#a6cee3"
      [] c = "#1F78B4" -> "#1f78b4"
      [] c = "#B2DF8A" -> "#b2df8a"
      [] c = "#33A02C" -> "#33a02c"
      [] c = "#FB9A99" -> "#fb9a99"

\* Color.validate
ColorValidate(c) == IF c = None THEN None ELSE to_hex(c)

\* layer.color = c
set_color(l, c) ==
    /\ l \in Layers
    /\ c \in ColorSpecs \cup {None}
    /\ color' = [color EXCEPT ![l] = ColorValidate(c)]
    /\ last' = Call("color", OK)
    /\ saved' = NoSave
    /\ UNCHANGED <<kind, col, tbl, tcol, err, owner, parent, visible, figLayers, views, yunit,
                   figYlim, figXlim, registry>>

(***************************************************************************)
(* auto_assign_colors                                                      *)
(***************************************************************************)
\* palettable.colorbrewer.qualitative.Paired_5.hex_colors
Paired_5 == <<"#A6CEE3", "#1F78B4", "#B2DF8A", "#33A02C", "#FB9A99">>

DEFAULT_COLOR == "#000000"

\* colors.py takes its classes from module marks
ALWAYS_BLACK == {"marks.Text"}

BLACK_IF_ONLY_ONE == {"marks.Symbol", "marks.Line", "marks.VerticalLine", "marks.HorizontalLine"}

\* the classes of module layers derive from HasTraits alone: the class of a layer
\* is a subclass of the classes named only if it is one of them
IsInstance(m, classes) == kind[m] \in classes

\* markers_by_type[type(marker)]
MarkersByType(ms, m) == SelectSeq(ms, LAMBDA x : kind[x] = kind[m])

\* list.index, zero-based
Index(s, x) == (CHOOSE i \in 1..Len(s) : s[i] = x /\ \A j \in 1..(i - 1) : s[j] # x) - 1

\* the loop of auto_assign_colors from position i on, with the offset reached
RECURSIVE AssignFrom(_, _, _)
AssignFrom(ms, i, offset) ==
    IF i > Len(ms) THEN <<>>
    ELSE IF IsInstance(ms[i], ALWAYS_BLACK)
    THEN <<"#000000">> \o AssignFrom(ms, i + 1, offset)
    ELSE IF IsInstance(ms[i], BLACK_IF_ONLY_ONE) /\ Len(MarkersByType(ms, ms[i])) = 1
    THEN <<"#000000">> \o AssignFrom(ms, i + 1, offset)
    ELSE LET icolor == Index(MarkersByType(ms, ms[i]), ms[i])
             current == (offset + icolor) % 4
         IN  <<Paired_5[current + 1]>> \o AssignFrom(ms, i + 1, current + 1)

auto_assign_colors(ms) == AssignFrom(ms, 1, 0)

\* a faulty variant of _check_colors: every layer of the figure is recoloured
CheckColorsAlways(override_style) ==
    [l \in DOMAIN color |->
        IF l \in Range(figLayers)
        THEN ColorValidate(auto_assign_colors(figLayers)[Index(figLayers, l) + 1])
        ELSE color[l]]

\* InteractiveTimeSeriesFigure._check_colors: the color traits afterwards
CheckColors(override_style) ==
    [l \in DOMAIN color |->
        IF l \in Range(figLayers) /\ (override_style \/ color[l] = None)
        THEN ColorValidate(auto_assign_colors(figLayers)[Index(figLayers, l) + 1])
        ELSE color[l]]

(***************************************************************************)
(* save_vega_json                                                          *)
(***************************************************************************)
\* layer._required_ydata, the columns
RequiredYData(l) ==
    IF kind[l] = "layers.Markers" /\ err[l] # None THEN <<col[l], err[l]>>
    ELSE IF kind[l] \in DataKinds THEN <<col[l]>>
    ELSE <<>>

\* a faulty variant of the scan: the last required y column gives the unit
RECURSIVE ScanLayersLast(_)
ScanLayersLast(ls) ==
    IF ls = <<>> THEN None
    ELSE IF ScanLayersLast(Tail(ls)) # None
    THEN ScanLayersLast(Tail(ls))
    ELSE IF RequiredYData(Head(ls)) # <<>>
    THEN DataUnit(RequiredYData(Head(ls))[1])
    ELSE None

\* the unit of the first required y column met in the layers ls, None if there is none
RECURSIVE ScanLayers(_)
ScanLayers(ls) ==
    IF ls = <<>> THEN None
    ELSE IF RequiredYData(Head(ls)) # <<>>
    THEN DataUnit(RequiredYData(Head(ls))[1])
    ELSE ScanLayers(Tail(ls))

\* the same over the views' own layers, in registration order
RECURSIVE ScanViews(_)
ScanViews(vs) ==
    IF vs = <<>> THEN None
    ELSE IF ScanLayers(Head(vs).local) # None
    THEN ScanLayers(Head(vs).local)
    ELSE ScanViews(Tail(vs))

\* a faulty variant of _guess_yunit: the views' own layers are not scanned
GuessYunitFigureOnly ==
    IF figYlim.set /\ IsQuantity(figYlim.lo) THEN figYlim.lo
    ELSE IF ScanLayers(figLayers) # None THEN ScanLayers(figLayers)
    ELSE "one"

\* InteractiveTimeSeriesFigure._guess_yunit
GuessYunit ==
    IF figYlim.set /\ IsQuantity(figYlim.lo) THEN figYlim.lo
    ELSE IF ScanLayers(figLayers) # None THEN ScanLayers(figLayers)
    ELSE IF ScanViews(views) # None THEN ScanViews(views)
    ELSE "one"

\* yunit = self._guess_yunit() if self.yunit == 'auto' else self.yunit
ResolvedYunit == IF yunit = "auto" THEN GuessYunit ELSE yunit

\* the first outcome of a sequence of steps that is not OK
RECURSIVE FirstError(_)
FirstError(rs) ==
    IF rs = <<>> THEN OK
    ELSE IF Head(rs) # OK THEN Head(rs)
    ELSE FirstError(Tail(rs))

\* all layers whose required data the export loop reads
ExportedLayers ==
    figLayers \o
    IF views = <<>> THEN <<>>
    ELSE LET RECURSIVE Locals(_)
             Locals(vs) == IF vs = <<>> THEN <<>> ELSE Head(vs).local \o Locals(Tail(vs))
         IN  Locals(views)

\* the layers of the scan that are bound to a Data source
BoundLayers == {l \in Range(ExportedLayers) : kind[l] \in DataKinds}

\* the (data, column) pairs of layer._required_xdata over the figure and the views
RequiredXData == {<<tbl[l], tcol[l]>> : l \in BoundLayers}

\* the (data, column) pairs of layer._required_ydata over the figure and the views
RequiredYPairs ==
    UNION {{<<tbl[l], RequiredYData(l)[i]>> : i \in DOMAIN RequiredYData(l)} : l \in BoundLayers}

\* the (data, column) pairs of layer._required_tooltipdata: a Markers layer has
\* tooltip=True, which asks for its x and y data; the other layers ask for none
RequiredTooltipData ==
    UNION {{<<tbl[l], tcol[l]>>} \cup {<<tbl[l], RequiredYData(l)[i]>> : i \in DOMAIN RequiredYData(l)}
           : l \in {m \in BoundLayers : kind[m] = "layers.Markers"}}

\* required_xdata, required_ydata and required_tooltipdata, as sets
RequiredData == [x |-> RequiredXData, y |-> RequiredYPairs, tooltip |-> RequiredTooltipData]

\* the columns put in the export table of t
ExportColumns(t, minimize_data, required) ==
    SelectSeq(TableColumns,
              LAMBDA c : \/ ~minimize_data
                         \/ <<t, c>> \in required.x \cup required.y \cup required.tooltip)

\* column "time" is a Time; the others go through column_to_values when they
\* are required y data
ConvertedColumns(t, minimize_data, required) ==
    SelectSeq(ExportColumns(t, minimize_data, required),
              LAMBDA c : c # "time" /\ <<t, c>> \notin required.x /\ <<t, c>> \in required.y)

\* the columns of the export table of t that column_to_values refuses
FailingColumns(t, minimize_data, yu, required) ==
    SelectSeq(ConvertedColumns(t, minimize_data, required),
              LAMBDA c : ColumnToValuesRaises(c, yu))

ConvertError == "UnitsError: Cannot convert the units of column to the required units"

LimitsError == "UnitsError: Limits for y axis are dimensionless but expected units"

NotConvertible == "UnitsError: units are not convertible"

NoColumnAttribute == "AttributeError: 'Range' object has no attribute 'column'"

EmptyTableError == "error: table without columns"

\* what table.write does with a table that has no column: it writes it, or raises
EmptyWrites == {OK, EmptyTableError}

NoError == [column |-> None, units |-> None, required |-> None]

\* the data export loop over the tables ts: how it ends, the column the
\* UnitsError names, the CSV files written and the tables exported so far
RECURSIVE ExportTables(_, _, _, _, _, _)
ExportTables(ts, embed_data, minimize_data, yu, w, required) ==
    IF ts = <<>>
    THEN [status |-> OK, error |-> NoError, csv |-> <<>>, data |-> <<>>]
    ELSE LET t == Head(ts)
             bad == FailingColumns(t, minimize_data, yu, required)
         IN  IF bad # <<>>
             THEN [status |-> ConvertError,
                   error |-> [column |-> bad[1], units |-> DataUnit(bad[1]), required |-> yu],
                   csv |-> <<>>, data |-> <<>>]
             ELSE IF ExportColumns(t, minimize_data, required) = <<>> /\ w # OK
             THEN [status |-> w, error |-> NoError, csv |-> <<>>, data |-> <<>>]
             ELSE LET more == ExportTables(Tail(ts), embed_data, minimize_data, yu, w, required)
                  IN  [status |-> more.status, error |-> more.error,
                       csv |-> (IF embed_data THEN <<>> ELSE <<t>>) \o more.csv,
                       data |-> <<t>> \o more.data]

\* the data export loop over self._data.values()
Export(embed_data, minimize_data, yu, w) ==
    ExportTables(registry, embed_data, minimize_data, yu, w, RequiredData)

\* BaseView._get_domains, the loop over the layers
DomainLayerResult(l, yu) ==
    IF kind[l] = "layers.Range" THEN NoColumnAttribute
    ELSE IF ColumnToValuesRaises(col[l], yu) THEN ConvertError ELSE OK

\* a faulty variant of _get_domains: explicit y limits are taken as they are
GetDomainsResultNoLimitCheck(ls, xl, yl, yu) ==
    LET layer_types == IF \E i \in DOMAIN ls : kind[ls[i]] = "layers.Markers"
                       THEN {"layers.Markers"}
                       ELSE {"layers.Range", "layers.Line"}
        used == SelectSeq(ls, LAMBDA l : kind[l] \in layer_types)
    IN  IF ~xl.set \/ ~yl.set
        THEN FirstError([i \in DOMAIN used |-> DomainLayerResult(used[i], yu)])
        ELSE OK

\* BaseView._get_domains for the layers ls and the limits xl, yl
GetDomainsResult(ls, xl, yl, yu) ==
    LET layer_types == IF \E i \in DOMAIN ls : kind[ls[i]] = "layers.Markers"
                       THEN {"layers.Markers"}
                       ELSE {"layers.Range", "layers.Line"}
        used == SelectSeq(ls, LAMBDA l : kind[l] \in layer_types)
        auto == IF ~xl.set \/ ~yl.set
                THEN FirstError([i \in DOMAIN used |-> DomainLayerResult(used[i], yu)])
                ELSE OK
        limits == IF ~yl.set THEN OK
                  ELSE IF IsQuantity(yl.lo)
                  THEN IF IsEquivalent(yl.lo, yu) /\ IsEquivalent(yl.hi, yu)
                       THEN OK ELSE NotConvertible
                  ELSE IF yu # "one" THEN LimitsError ELSE OK
    IN  FirstError(<<auto, limits>>)

\* layer.to_vega(yunit): a literal y value is a plain number, held as value * u.one
ToVegaResult(l, yu) ==
    IF kind[l] \in ValueKinds /\ ~IsEquivalent("one", yu) THEN NotConvertible ELSE OK

MarksResult(ls, yu) == FirstError([i \in DOMAIN ls |-> ToVegaResult(ls[i], yu)])

\* the loop over [self] + self._views
RECURSIVE ViewsResult(_, _)
ViewsResult(vs, yu) ==
    IF vs = <<>> THEN OK
    ELSE FirstError(<<GetDomainsResult(ViewLayers(Head(vs)), Head(vs).xlim, Head(vs).ylim, yu),
                      MarksResult(Head(vs).local, yu),
                      ViewsResult(Tail(vs), yu)>>)

\* how save_vega_json ends, the data export loop having ended as export
SaveResult(export, yu) ==
    FirstError(<<export,
                 GetDomainsResult(figLayers, figXlim, figYlim, yu),
                 MarksResult(figLayers, yu),
                 ViewsResult(views, yu)>>)

\* the colour written for each layer that has a mark in the document
Marks(colors) ==
    [l \in DOMAIN colors |->
        IF l \in Range(ExportedLayers)
        THEN IF colors[l] = None THEN DEFAULT_COLOR ELSE colors[l]
        ELSE None]

\* len(layer.uuids)
NUuids(l) == IF kind[l] = "layers.Markers" THEN 2 ELSE 1

\* the names of the marks layer.to_vega returns, <<l, i>> standing for
\* layer.uuids[i - 1]: the error bars of a Markers layer are a mark only with
\* an error column
MarkNames(l) ==
    {<<l, 1>>} \cup IF kind[l] = "layers.Markers" /\ err[l] # None THEN {<<l, 2>>} ELSE {}

\* the names in the 'markers' list of a view: every uuid of every layer
ViewEntries(view) == {<<l, i>> : l \in Range(ViewLayers(view)), i \in 1..2} \cap
                     {<<l, i>> \in Layers \X (1..2) : i <= NUuids(l)}

\* str(uuid.uuid4()) of BaseView.__init__ for the figure (0) and for view c: one
\* value per container, no two alike
ContainerUuid(c) == c

\* the 'name' of the entries of _views, one per view: view_json is built with
\* self.uuid, self being the figure that is saved
ViewDescriptorNames == [v \in DOMAIN views |-> ContainerUuid(Figure)]

\* what a call of save_vega_json leaves behind
SavedRecord(embed_data, minimize_data, override_style, w) ==
    LET yu == ResolvedYunit
        ex == Export(embed_data, minimize_data, yu, w)
        st == SaveResult(ex.status, yu)
        required == RequiredData
    IN  [status |-> st,
         yunit |-> yu,
         before |-> color,
         marks |-> IF st = OK THEN Marks(CheckColors(override_style)) ELSE <<>>,
         override |-> override_style,
         embed |-> embed_data,
         minimize |-> minimize_data,
         error |-> IF st = ConvertError THEN ex.error ELSE NoError,
         csv |-> ex.csv,
         json |-> st = OK,
         data |-> IF st = OK THEN ex.data ELSE <<>>,
         cols |-> [t \in Tables |-> IF t \in Range(ex.data)
                                    THEN ExportColumns(t, minimize_data, required)
                                    ELSE <<>>],
         names |-> IF st = OK THEN UNION {MarkNames(l) : l \in Range(ExportedLayers)} ELSE {},
         entries |-> IF st = OK
                     THEN [v \in DOMAIN views |-> ViewEntries(views[v])]
                     ELSE <<>>,
         viewnames |-> IF st = OK THEN ViewDescriptorNames ELSE <<>>]

\* save_vega_json(filename, embed_data, minimize_data, override_style)
save_vega_json_with(embed_data, minimize_data, override_style, w) ==
    /\ w \in EmptyWrites
    /\ color' = CheckColors(override_style)
    /\ LET record == SavedRecord(embed_data, minimize_data, override_style, w)
       IN  /\ saved' = record
           /\ last' = Call("save_vega_json", record.status)
    /\ UNCHANGED <<kind, col, tbl, tcol, err, owner, parent, visible, figLayers, views, yunit,
                   figYlim, figXlim, registry>>

\* save_vega_json(filename, override_style=...): embed_data=False, minimize_data=True
save_vega_json(override_style) ==
    \E w \in EmptyWrites : save_vega_json_with(FALSE, TRUE, override_style, w)

\* export_interactive_bundle(filename, embed_data, minimize_data, override_style):
\* save_vega_json('figure.json', embed_data=embed_data) in a temporary directory,
\* whose files are then zipped
export_interactive_bundle(embed_data, minimize_data, override_style, w) ==
    /\ w \in EmptyWrites
    /\ color' = CheckColors(FALSE)
    /\ LET record == SavedRecord(embed_data, TRUE, FALSE, w)
       IN  /\ saved' = record
           /\ last' = Call("export_interactive_bundle", record.status)
    /\ UNCHANGED <<kind, col, tbl, tcol, err, owner, parent, visible, figLayers, views, yunit,
                   figYlim, figXlim, registry>>

(***************************************************************************)
(* Init                                                                    *)
(***************************************************************************)
Init ==
    /\ kind = <<>> /\ col = <<>> /\ tbl = <<>> /\ tcol = <<>> /\ err = <<>> /\ color = <<>>
    /\ owner = <<>> /\ parent = <<>> /\ visible = <<>>
    /\ figLayers = <<>>
    /\ views = <<>>
    /\ yunit = "auto"
    /\ figYlim = NoLim
    /\ figXlim = NoLim
    /\ registry = <<>>
    /\ last = Call("init", OK)
    /\ saved = NoSave

(***************************************************************************)
(* Composition: layers, views, removal and visibility                      *)
(***************************************************************************)
\* the selector arguments of the add_view calls made: no selector, one selector,
\* or several at once with short lists
Singles == {s \in Selections : Len(s) = 1}

AddViewCalls ==
    {<<FALSE, NoArg, NoArg>>, <<TRUE, NoArg, NoArg>>}
    \cup {<<FALSE, Arg(s), NoArg>> : s \in Selections}
    \cup {<<FALSE, NoArg, Arg(s)>> : s \in Selections}
    \cup {<<e, Arg(s), Arg(t)>> : e \in BOOLEAN, s \in Singles, t \in Singles}

Next ==
    \/ \E p \in Containers : add_layer(p, "layers.Markers", "flux")
    \/ \E a \in AddViewCalls : add_view(a[1], a[2], a[3])
    \/ \E l \in Layers : Figure_remove(l)
    \/ \E v \in 1..Len(views), l \in Layers : View_remove(v, l)
    \/ \E l \in Layers : BaseLayer_remove(l)

Spec == Init /\ [][Next]_vars

\* the same with View.show and View.hide, the add_view calls naming at most one layer
HideViewCalls ==
    {<<FALSE, NoArg, NoArg>>, <<TRUE, NoArg, NoArg>>}
    \cup {<<FALSE, Arg(s), NoArg>> : s \in Singles}
    \cup {<<FALSE, NoArg, Arg(s)>> : s \in Singles}

NextHide ==
    \/ \E p \in Containers : add_layer(p, "layers.Markers", "flux")
    \/ \E a \in HideViewCalls : add_view(a[1], a[2], a[3])
    \/ \E l \in Layers : Figure_remove(l)
    \/ \E v \in 1..Len(views), l \in Layers : View_remove(v, l)
    \/ \E l \in Layers : BaseLayer_remove(l)
    \/ \E v \in 1..Len(views), l \in Layers, f \in BOOLEAN : set_visible(v, <<l>>, f)

SpecHide == Init /\ [][NextHide]_vars

\* the figure's registry and the add_view calls alone, with every selector
NextAddView ==
    \/ \E p \in Containers : add_layer(p, "layers.Markers", "flux")
    \/ \E a \in AddViewCalls : add_view(a[1], a[2], a[3])
    \/ \E l \in Layers : Figure_remove(l)

SpecAddView == Init /\ [][NextAddView]_vars

(***************************************************************************)
(* Claims on the composition model                                         *)
(***************************************************************************)
\* the step is an add_* call on the base figure
FigureAddStep == Len(kind') = Len(kind) + 1 /\ owner'[Len(kind')] = Figure

\* C1: once a View exists, an add_* call on the base Figure leaves its layer
\* list as it was, and no layer created by the Figure that is absent from the
\* View's layer list is in it after any later call (so a layer added to the
\* Figure after the View was made is never in View.layers).
C1_SnapshotAtCreation ==
    [][\A v \in 1..Len(views) :
          /\ FigureAddStep => ViewLayers(views[v])' = ViewLayers(views[v])
          /\ \A l \in 1..Len(kind') :
                (owner'[l] = Figure /\ l \in Range(ViewLayers(views[v]))')
                    => l \in Range(ViewLayers(views[v]))]_vars

\* a View that inherited the figure's layers, and the figure has just got a
\* new layer which the View does not list
C1_Witness ==
    /\ last = Call("add_layer", OK)
    /\ Len(views) >= 1 /\ Len(kind) >= 2
    /\ views[1].inherited # <<>>
    /\ figLayers # <<>> /\ figLayers[Len(figLayers)] = Len(kind)
    /\ Len(kind) \notin Range(ViewLayers(views[1]))

\* C2: after Figure.remove(L) succeeds, directly or through L.remove() on a
\* layer whose parent is the Figure, L is neither in Figure.layers nor in the
\* layer list of any View.
C2_CascadingDelete ==
    [][\A l \in Layers :
          ((Figure_remove(l) \/ (BaseLayer_remove(l) /\ parent[l] = Figure))
              /\ last'.res = OK)
          => /\ l \notin Range(figLayers')
             /\ \A v \in 1..Len(views) : l \notin Range(ViewLayers(views[v]))']_vars

\* a removal from the figure has just succeeded with two views registered, both
\* of them left with exactly the figure's remaining layer, after a layer was
\* hidden
C2_Witness ==
    /\ last.op \in {"Figure.remove", "BaseLayer.remove"} /\ last.res = OK
    /\ Len(views) >= 2 /\ Len(kind) >= 2 /\ Len(figLayers) = 1
    /\ \A v \in 1..Len(views) : ViewLayers(views[v]) = figLayers
    /\ \E l \in Layers : ~visible[l]

\* C3: View.remove(L) leaves Figure.layers and every other View as they were,
\* and when it succeeds L is no longer in that View, for an inherited L and for
\* a view-local L.
C3_ViewRemoveIsLocal ==
    [][\A v \in 1..Len(views), l \in Layers :
          View_remove(v, l)
          => /\ figLayers' = figLayers
             /\ \A w \in 1..Len(views) : w # v => views'[w] = views[w]
             /\ last'.res = OK => l \notin Range(ViewLayers(views[v]))']_vars

\* the only layer there is has just been removed from one view, and the figure
\* and the other view still hold it
C3_Witness ==
    /\ last = Call("View.remove", OK)
    /\ Len(kind) = 1 /\ Len(views) = 2
    /\ figLayers = <<1>>
    /\ \E v, w \in 1..2 : ViewLayers(views[v]) = <<>> /\ ViewLayers(views[w]) = <<1>>

\* the position of the first occurrence of x in s
FirstPos(s, x) == CHOOSE i \in 1..Len(s) : s[i] = x /\ \A j \in 1..(i - 1) : s[j] # x

\* the layer list C4 states for a call, the cases taken in the order given
ClaimedViewLayers(empty, include, exclude) ==
    IF empty THEN <<>>
    ELSE IF include.given THEN include.val
    ELSE IF exclude.given
    THEN SelectSeq(figLayers, LAMBDA l : l \notin Range(exclude.val))
    ELSE figLayers

\* C4 as stated: right after add_view returns, View.layers is the empty list,
\* the include list as given, the figure's layers minus exclude, or all of the
\* figure's layers.
C4_Original ==
    [][last'.op = "add_view" =>
          LET Holds(empty, include, exclude) ==
                  (add_view(empty, include, exclude) /\ last'.res = OK)
                  => ViewLayers(views[Len(views)])' = ClaimedViewLayers(empty, include, exclude)
          IN
             /\ Holds(FALSE, NoArg, NoArg) /\ Holds(TRUE, NoArg, NoArg)
             /\ \A n \in 0..MaxSel : \A s \in [1..n -> Layers] :
                   Holds(FALSE, Arg(s), NoArg) /\ Holds(FALSE, NoArg, Arg(s))
             /\ \A e \in BOOLEAN : \A s, t \in [1..1 -> Layers] :
                   Holds(e, Arg(s), Arg(t))]_vars

\* C4 amended: as stated, except that with include the View lists each layer
\* of the include list once, in the order of their first occurrences in it.
C4_ViewLayersAtCreation ==
    [][last'.op = "add_view" =>
          LET Holds(empty, include, exclude) ==
                  (add_view(empty, include, exclude) /\ last'.res = OK)
                  => LET ls == ViewLayers(views[Len(views)])'
                     IN  IF ~empty /\ include.given
                         THEN /\ Range(ls) = Range(include.val)
                              /\ \A p, q \in 1..Len(ls) :
                                    p < q => FirstPos(include.val, ls[p]) < FirstPos(include.val, ls[q])
                         ELSE ls = ClaimedViewLayers(empty, include, exclude)
          IN
             /\ Holds(FALSE, NoArg, NoArg) /\ Holds(TRUE, NoArg, NoArg)
             /\ \A n \in 0..MaxSel : \A s \in [1..n -> Layers] :
                   Holds(FALSE, Arg(s), NoArg) /\ Holds(FALSE, NoArg, Arg(s))
             /\ \A e \in BOOLEAN : \A s, t \in [1..1 -> Layers] :
                   Holds(e, Arg(s), Arg(t))]_vars

\* a view has just been made that lists the figure's two layers in the order
\* opposite to the figure's
C4_Witness ==
    /\ last = Call("add_view", OK)
    /\ figLayers = <<1, 2>>
    /\ ViewLayers(views[Len(views)]) = <<2, 1>>

\* the list names a layer that is not in the figure's own registry
NamesUnregistered(arg) ==
    arg.given /\ \E i \in DOMAIN arg.val : arg.val[i] \notin Range(figLayers)

\* C5 as stated: add_view fails with 'does not exist in base figure' whenever
\* include or exclude names a layer not in the figure's registry, and then no
\* View is appended.
C5_Original ==
    [][last'.op = "add_view" =>
          LET Holds(empty, include, exclude) ==
                  (/\ NamesUnregistered(include) \/ NamesUnregistered(exclude)
                   /\ add_view(empty, include, exclude))
                  => last'.res = NotInBaseFigure /\ views' = views
          IN
             /\ Holds(FALSE, NoArg, NoArg) /\ Holds(TRUE, NoArg, NoArg)
             /\ \A n \in 0..MaxSel : \A s \in [1..n -> Layers] :
                   Holds(FALSE, Arg(s), NoArg) /\ Holds(FALSE, NoArg, Arg(s))
             /\ \A e \in BOOLEAN : \A s, t \in [1..1 -> Layers] :
                   Holds(e, Arg(s), Arg(t))]_vars

\* C5 amended: the same for the selector in effect, which is include unless
\* empty is true, and exclude unless empty is true or include is given.
C5_InvalidSelectorRejected ==
    [][last'.op = "add_view" =>
          LET Holds(empty, include, exclude) ==
                  (/\ ~empty
                   /\ \/ NamesUnregistered(include)
                      \/ (~include.given /\ NamesUnregistered(exclude))
                   /\ add_view(empty, include, exclude))
                  => last'.res = NotInBaseFigure /\ views' = views
          IN
             /\ Holds(FALSE, NoArg, NoArg) /\ Holds(TRUE, NoArg, NoArg)
             /\ \A n \in 0..MaxSel : \A s \in [1..n -> Layers] :
                   Holds(FALSE, Arg(s), NoArg) /\ Holds(FALSE, NoArg, Arg(s))
             /\ \A e \in BOOLEAN : \A s, t \in [1..1 -> Layers] :
                   Holds(e, Arg(s), Arg(t))]_vars

\* add_view has just failed, and there is a layer that is in a view's own
\* registry, not in the figure's
C5_Witness ==
    /\ last = Call("add_view", NotInBaseFigure)
    /\ \E v \in 1..Len(views) : views[v].local # <<>>

\* C6: Figure.remove(L) with L not in the figure's registry fails with 'is not
\* in figure', View.remove(L) with L in neither registry of the View fails with
\* 'is not in view', and either failure leaves every registry as it was.
C6_RemoveAbsentFails ==
    [][/\ \A l \in Layers :
            (Figure_remove(l) /\ l \notin Range(figLayers))
            => last'.res = NotInFigure /\ figLayers' = figLayers /\ views' = views
       /\ \A v \in 1..Len(views), l \in Layers :
            (View_remove(v, l) /\ l \notin Range(views[v].inherited)
                              /\ l \notin Range(views[v].local))
            => last'.res = NotInView /\ figLayers' = figLayers /\ views' = views]_vars

\* Figure.remove has just failed while a view holds a layer of its own, which
\* the figure's registry does not have
C6_Witness ==
    /\ last = Call("Figure.remove", NotInFigure)
    /\ \E v \in 1..Len(views) : \E i \in DOMAIN views[v].local :
          views[v].local[i] \notin Range(figLayers)

\* the layer is no longer in the registry of the container that created it
AlreadyRemoved(l) ==
    IF owner[l] = Figure
    THEN l \notin Range(figLayers)
    ELSE l \notin Range(views[owner[l]].local)

\* C7: layer.remove() on a layer already removed from its owning Figure/View,
\* by an earlier layer.remove() or by the container's remove(layer), fails with
\* 'is no longer in a figure/view' and changes no registry.
C7_Original ==
    [][\A l \in Layers :
          (BaseLayer_remove(l) /\ AlreadyRemoved(l))
          => /\ last'.res = NoLongerInFigureView
             /\ figLayers' = figLayers /\ views' = views]_vars

(***************************************************************************)
(* Colours: the figure's layers, their color traits and the saves          *)
(***************************************************************************)
ColorKinds == {"layers.Markers", "layers.Line", "layers.VerticalLine",
               "layers.HorizontalLine", "layers.Text"}

NextColor ==
    \/ \E k \in ColorKinds : add_layer(Figure, k, IF k \in DataKinds THEN "flux" ELSE None)
    \/ \E l \in Layers, c \in {"red", None} : set_color(l, c)
    \/ \E l \in Layers : Figure_remove(l)
    \/ \E o \in BOOLEAN : save_vega_json(o)

SpecColor == Init /\ [][NextColor]_vars

\* C8: a save with override_style=False leaves the color of every figure layer
\* whose color is set as it was, and the document it writes carries exactly
\* that color for the layer.
C8_ExplicitColorKept ==
    [][\A l \in Layers :
          (/\ last'.op = "save_vega_json"
           /\ l \in Range(figLayers) /\ color[l] # None
           /\ save_vega_json(FALSE))
          => /\ color'[l] = color[l]
             /\ saved'.status = OK => saved'.marks[l] = color[l]]_vars

\* a save without override_style has just written a document in which a layer
\* set to red is red, next to a layer that had no color and was given one
C8_Witness ==
    /\ last = Call("save_vega_json", OK)
    /\ ~saved.override
    /\ \E l, m \in Range(figLayers) :
          /\ saved.before[l] = "#ff0000" /\ color[l] = "#ff0000" /\ saved.marks[l] = "#ff0000"
          /\ saved.before[m] = None /\ color[m] # None

\* the layer is the only one of its class in the figure
OnlyOfItsKind(l) == \A m \in Range(figLayers) : kind[m] = kind[l] => m = l

\* C9: in a completed save, a layer of the figure that had no color and is the
\* only Markers, Line, VerticalLine or HorizontalLine layer of the figure is
\* black in the document, and so is every Text layer that had no color.
C9_Original ==
    (last.op = "save_vega_json" /\ saved.status = OK)
    => \A l \in Range(figLayers) :
          (/\ saved.before[l] = None
           /\ \/ kind[l] = "layers.Text"
              \/ /\ kind[l] \in {"layers.Markers", "layers.Line",
                                  "layers.VerticalLine", "layers.HorizontalLine"}
                 /\ OnlyOfItsKind(l))
          => saved.marks[l] = "#000000"

(***************************************************************************)
(* Units: the y unit a save resolves                                       *)
(***************************************************************************)
UnitLayers == {<<"layers.Markers", "flux_with_unit">>, <<"layers.Line", "error_with_unit">>,
               <<"layers.VerticalLine", None>>}

NextUnit ==
    \/ \E p \in Containers, kc \in UnitLayers : add_layer(p, kc[1], kc[2])
    \/ add_view(TRUE, NoArg, NoArg)
    \/ \E u \in {"auto", "Jy"} : set_yunit(u)
    \/ \E lim \in {"plain", "mJy"} : set_ylim(Figure, lim, lim)
    \/ save_vega_json(FALSE)

SpecUnit == Init /\ [][NextUnit]_vars

\* the figure's layers, then each view's own layers in registration order
ScanOrder ==
    LET RECURSIVE Own(_)
        Own(n) == IF n = 0 THEN <<>> ELSE Own(n - 1) \o views[n].local
    IN  figLayers \o Own(Len(views))

\* the unit of the column of the first data-bound layer in scan order,
\* dimensionless when there is none
FirstColumnUnit ==
    IF \E i \in DOMAIN ScanOrder : kind[ScanOrder[i]] \in DataKinds
    THEN LET i == CHOOSE i \in DOMAIN ScanOrder :
                    /\ kind[ScanOrder[i]] \in DataKinds
                    /\ \A j \in 1..(i - 1) : kind[ScanOrder[j]] \notin DataKinds
         IN  DataUnit(col[ScanOrder[i]])
    ELSE "one"

\* C10 as stated: a save uses the explicit yunit if one was set, otherwise the
\* unit of the first required y column scanning the figure's layers and then
\* each view's own layers, otherwise dimensionless.
C10_Original ==
    last.op = "save_vega_json"
    => saved.yunit = IF yunit # "auto" THEN yunit ELSE FirstColumnUnit

\* C10 amended: between the explicit yunit and the scan of the layers comes
\* the unit of the figure's ylim, when that was set as a pair of Quantities.
C10_ResolvedYunit ==
    last.op = "save_vega_json"
    => saved.yunit = IF yunit # "auto" THEN yunit
                     ELSE IF figYlim.set /\ figYlim.lo \in Units THEN figYlim.lo
                     ELSE FirstColumnUnit

\* a save has just resolved the unit of a column that only a layer of the
\* second view uses, with no yunit and no ylim set
C10_Witness ==
    /\ last.op = "save_vega_json"
    /\ yunit = "auto" /\ ~figYlim.set
    /\ Len(views) = 2
    /\ \A i \in DOMAIN figLayers : kind[figLayers[i]] \notin DataKinds
    /\ views[1].local = <<>>
    /\ \E i \in DOMAIN views[2].local : kind[views[2].local[i]] \in DataKinds
    /\ saved.yunit \in {"Jy", "mJy"}

(***************************************************************************)
(* Markers layers on a dimensionless column and on a column in Jy of one   *)
(* table, in the figure and in views.                                      *)
(***************************************************************************)
NextMarkers ==
    \/ \E p \in Containers, c \in {"flux", "flux_with_unit"} :
          add_layer(p, "layers.Markers", c)
    \/ add_view(FALSE, NoArg, NoArg)
    \/ \E l \in Layers : Figure_remove(l)
    \/ save_vega_json(FALSE)

SpecMarkers == Init /\ [][NextMarkers]_vars

\* the figure holds exactly two Markers layers, on the two columns of the one
\* table bound so far, and nothing was saved since
TwoMarkersOneTable ==
    /\ Len(figLayers) = 2
    /\ Len(registry) = 1
    /\ {col[figLayers[1]], col[figLayers[2]]} = {"flux", "flux_with_unit"}
    /\ tbl[figLayers[1]] = tbl[figLayers[2]]

\* C11 as stated: two Markers layers on one table, one on a column in Jy and
\* one on a dimensionless column, make the save fail with a unit error that
\* names the dimensionless column and Jy, whichever layer was added first.
C11_Original ==
    (last.op = "save_vega_json" /\ TwoMarkersOneTable)
    => /\ saved.status = ConvertError
       /\ saved.error.column = "flux"
       /\ saved.error.required = "Jy"

\* C11 amended: both layers are accepted and the save fails with a unit
\* error in either order; the error names the column of the layer added
\* second and, as the required unit, the unit of the column of the layer
\* added first.
C11_UnitErrorNamesSecondColumn ==
    /\ (last.op = "add_layer" => last.res = OK)
    /\ (last.op = "save_vega_json" /\ TwoMarkersOneTable)
       => /\ saved.status = ConvertError
          /\ ~saved.json
          /\ saved.error.column = col[figLayers[2]]
          /\ saved.error.units = DataUnit(col[figLayers[2]])
          /\ saved.error.required = DataUnit(col[figLayers[1]])

\* a save has just failed on a figure whose first layer is on the
\* dimensionless column and whose second layer is on the column in Jy
C11_Witness ==
    /\ last.op = "save_vega_json"
    /\ TwoMarkersOneTable
    /\ col[figLayers[1]] = "flux"
    /\ saved.status = ConvertError
    /\ saved.error.column = "flux_with_unit"

(***************************************************************************)
(* The export of the data: Markers layers on two columns of two tables.    *)
(***************************************************************************)
ExportColumnsUsed == {"flux", "flux_with_unit"}

NextExport ==
    \/ \E p \in Containers, c \in ExportColumnsUsed, t \in Tables :
          add_bound_layer(p, "layers.Markers", c, t, None, "time")
    \/ add_view(FALSE, NoArg, NoArg)
    \/ \E l \in Layers : BaseLayer_remove(l)
    \/ \E embed_data \in BOOLEAN, minimize_data \in BOOLEAN, w \in EmptyWrites :
          save_vega_json_with(embed_data, minimize_data, FALSE, w)

SpecExport == Init /\ [][NextExport]_vars

\* C12 as stated: a save that raises a unit error has written nothing,
\* neither the JSON document nor a CSV file.
C12_Original ==
    (last.op = "save_vega_json" /\ saved.status \in {ConvertError, LimitsError, NotConvertible})
    => /\ ~saved.json
       /\ saved.csv = <<>>

\* C13 as stated: in the saved document every {name, visible} entry of a
\* view names a mark that is present, in the figure's marks or in the extra
\* marks.
C13_Original ==
    (last.op = "save_vega_json" /\ saved.status = OK)
    => \A v \in DOMAIN saved.entries : saved.entries[v] \subseteq saved.names

\* the tables that a layer now in the figure or in a view is bound to
ReferencedTables == {tbl[l] : l \in BoundLayers}

\* C14 as stated: a save with embed_data=False emits one data entry and
\* writes one CSV file for each table that a current layer references, and
\* none for any other table.
C14_Original ==
    (last.op = "save_vega_json" /\ saved.status = OK /\ ~saved.embed)
    => /\ Range(saved.data) = ReferencedTables
       /\ Len(saved.data) = Cardinality(ReferencedTables)
       /\ Range(saved.csv) = ReferencedTables
       /\ Len(saved.csv) = Cardinality(ReferencedTables)

(***************************************************************************)
(* The columns exported: Markers layers on the time column or on the       *)
(* phase column, in the figure and in views in absolute or phase mode.     *)
(***************************************************************************)
NextColumns ==
    \/ \E p \in Containers, x \in {"time", "phase"} :
          add_bound_layer(p, "layers.Markers", "flux", "ts", None, x)
    \/ \E empty \in BOOLEAN, time_mode \in {"absolute", "phase"} :
          add_view_in_mode(empty, NoArg, NoArg, time_mode)
    \/ \E l \in Layers : BaseLayer_remove(l)
    \/ \E minimize_data \in BOOLEAN, w \in EmptyWrites :
          save_vega_json_with(FALSE, minimize_data, FALSE, w)

SpecColumns == Init /\ [][NextColumns]_vars

\* the columns of table t that the claim expects in the export
ClaimedColumns(t, minimize_data) ==
    SelectSeq(TableColumns,
              LAMBDA c : \/ ~minimize_data
                         \/ c = "time"
                         \/ <<t, c>> \in RequiredXData \cup RequiredYPairs \cup RequiredTooltipData)

\* C15 as stated: the export of a table holds the table's time column and,
\* when minimizing, besides it exactly the columns required by the layers
\* of the figure and of the views; when not minimizing, every column.  It
\* is stated here for the tables that a current layer references.
C15_Original ==
    (last.op = "save_vega_json" /\ saved.status = OK)
    => \A t \in Range(saved.data) \cap ReferencedTables :
          /\ "time" \in Range(saved.cols[t])
          /\ saved.cols[t] = ClaimedColumns(t, saved.minimize)

(***************************************************************************)
(* The axis domains: Markers, Range and Line layers of the figure, which   *)
(* the views inherit, and plain y limits on the figure and on the views.   *)
(***************************************************************************)
DomainLayers == {<<"layers.Markers", "flux_with_unit">>, <<"layers.Range", "flux_with_unit">>,
                 <<"layers.Line", "flux">>}

NextDomains ==
    \/ \E kc \in DomainLayers : add_layer(Figure, kc[1], kc[2])
    \/ add_view(FALSE, NoArg, NoArg)
    \/ \E p \in Containers : set_ylim(p, "plain", "plain")
    \/ save_vega_json(FALSE)

SpecDomains == Init /\ [][NextDomains]_vars

\* every layer of the figure and of the views is a Range or a Line layer,
\* there is one, they are on columns of one unit, and no limit is set
OnlyRangeAndLine ==
    /\ ExportedLayers # <<>>
    /\ \A l \in Range(ExportedLayers) : kind[l] \in {"layers.Range", "layers.Line"}
    /\ \A l, m \in Range(ExportedLayers) : DataUnit(col[l]) = DataUnit(col[m])
    /\ ~figYlim.set
    /\ \A v \in DOMAIN views : ~views[v].ylim.set

\* C16 as stated, the part on Range and Line layers: the save of a figure
\* whose only value-bearing layers are Range and/or Line layers completes,
\* with domains that span their data.
C16_Original ==
    (last.op = "save_vega_json" /\ OnlyRangeAndLine) => saved.status = OK

(***************************************************************************)
(* The limit setters, on the figure and on the views.                      *)
(***************************************************************************)
\* the values assigned to ylim: every pair of a plain number, a Quantity in
\* Jy and a Quantity in m, and values with one and with three endpoints
YlimValues ==
    {<<lo, hi>> : lo \in {"plain", "Jy", "m"}, hi \in {"plain", "Jy", "m"}}
    \cup {<<"plain">>, <<"plain", "plain", "plain">>, <<"Jy", "m", "plain">>}

\* the values assigned to xlim
XlimValues ==
    {<<"Time", "Time">>, <<"iso", "iso">>, <<"Time", "plain">>, <<"Time">>,
     <<"Time", "Time", "Time">>}

NextLimits ==
    \/ add_view(FALSE, NoArg, NoArg)
    \/ \E p \in Containers, r \in YlimValues : set_ylim_to(p, r)
    \/ \E p \in Containers, r \in XlimValues : set_xlim(p, r)
    \/ save_vega_json(FALSE)

SpecLimits == Init /\ [][NextLimits]_vars

\* the same without the x limits
NextYlim ==
    \/ add_view(FALSE, NoArg, NoArg)
    \/ \E p \in Containers, r \in YlimValues : set_ylim_to(p, r)
    \/ save_vega_json(FALSE)

SpecYlim == Init /\ [][NextYlim]_vars

\* C17: assigning to ylim a pair of Quantities of incompatible units raises
\* UnitsError, assigning a Quantity and a plain number raises ValueError;
\* both happen in the assignment, which leaves the stored limits of the
\* figure and of every view as they were and saves nothing.
C17_YlimSetterRaises ==
    [][\A p \in Containers, r \in YlimValues :
          (last'.op = "ylim.setter" /\ set_ylim_to(p, r) /\ Len(r) = 2)
          => /\ (IsQuantity(r[1]) /\ IsQuantity(r[2]) /\ ~IsEquivalent(r[1], r[2]))
                => /\ last' = Call("ylim.setter", "UnitsError")
                   /\ figYlim' = figYlim /\ views' = views /\ saved' = NoSave
             /\ (IsQuantity(r[1]) # IsQuantity(r[2]))
                => /\ last' = Call("ylim.setter", "ValueError")
                   /\ figYlim' = figYlim /\ views' = views /\ saved' = NoSave]_vars

\* an assignment of incompatible Quantities has just raised, on a figure
\* whose view keeps the limits stored before
C17_Witness ==
    /\ last = Call("ylim.setter", "UnitsError")
    /\ \E v \in DOMAIN views : views[v].ylim.set /\ views[v].ylim.lo = "Jy"

\* C18 as stated: the xlim setter and the ylim setter reject a value that
\* does not have exactly two endpoints and leave the stored limit as it
\* was; xlim also rejects two endpoints that are not both times, with
\* 'xlim should be a typle of two Time instances'.
C18_Original ==
    [][/\ \A p \in Containers, r \in YlimValues :
             (last'.op = "ylim.setter" /\ set_ylim_to(p, r) /\ Len(r) # 2)
             => /\ last'.res # OK
                /\ figYlim' = figYlim /\ views' = views
       /\ \A p \in Containers, r \in XlimValues :
             (last'.op = "xlim.setter" /\ set_xlim(p, r))
             => /\ Len(r) # 2
                   => /\ last'.res # OK
                      /\ figXlim' = figXlim /\ views' = views
                /\ (Len(r) = 2 /\ \E i \in 1..2 : r[i] \notin {"Time", "iso"})
                   => /\ last'.res = XlimNotTimes
                      /\ figXlim' = figXlim /\ views' = views]_vars

\* the figure or a view has y limits that are a pair of plain numbers
PlainLimitsSet ==
    \/ figYlim.set /\ ~IsQuantity(figYlim.lo)
    \/ \E v \in DOMAIN views : views[v].ylim.set /\ ~IsQuantity(views[v].ylim.lo)

\* C19 as stated: with a resolved y unit that is not dimensionless and plain
\* y limits on the figure or on a view, the save raises the UnitsError
\* 'Limits for y axis are dimensionless but expected units of ...' and the
\* JSON document is not written.
C19_Original ==
    (last.op = "save_vega_json" /\ saved.yunit # "one" /\ PlainLimitsSet)
    => /\ saved.status = LimitsError
       /\ ~saved.json

\* no step of the save that comes before the check of the limits raises:
\* every column a layer is bound to converts to the unit u, every literal
\* value does, and no Range layer is read by _get_domains (the figure and
\* every view that has a Range layer has a Markers layer or both limits)
StepsBeforeLimitsPass(u) ==
    /\ \A l \in BoundLayers : IsEquivalent(DataUnit(col[l]), u)
    /\ \A l \in Range(ExportedLayers) : kind[l] \in ValueKinds => IsEquivalent("one", u)
    /\ (\E i \in DOMAIN figLayers : kind[figLayers[i]] = "layers.Range")
       => \/ \E i \in DOMAIN figLayers : kind[figLayers[i]] = "layers.Markers"
          \/ figXlim.set /\ figYlim.set
    /\ \A v \in DOMAIN views :
          (\E l \in Range(ViewLayers(views[v])) : kind[l] = "layers.Range")
          => \/ \E l \in Range(ViewLayers(views[v])) : kind[l] = "layers.Markers"
             \/ views[v].xlim.set /\ views[v].ylim.set

\* C19 amended: assigning plain limits raises nothing; with a resolved y
\* unit that is not dimensionless and plain y limits on the figure or on a
\* view the save raises and the JSON document is not written; the error is
\* the UnitsError on the limits when no step of the save before the check
\* of the limits raises, else it is the error of that step.
C19_PlainLimitsFailSave ==
    /\ (last.op = "ylim.setter" => last.res = OK)
    /\ (last.op = "save_vega_json" /\ saved.yunit # "one" /\ PlainLimitsSet)
       => /\ saved.status # OK
          /\ ~saved.json
          /\ StepsBeforeLimitsPass(saved.yunit) => saved.status = LimitsError

\* a save has just raised the UnitsError on the limits of a view, the
\* figure having no limits
C19_Witness ==
    /\ last.op = "save_vega_json"
    /\ saved.status = LimitsError
    /\ saved.yunit = "Jy"
    /\ ~figYlim.set
    /\ \E v \in DOMAIN views : views[v].ylim.set

(***************************************************************************)
(* The interactive bundle: layers of the figure with and without a colour  *)
(* of their own, exported with every combination of the options.           *)
(***************************************************************************)
NextBundle ==
    \/ \E k \in {"layers.Markers", "layers.Line"} : add_layer(Figure, k, "flux")
    \/ \E l \in Layers, c \in ColorSpecs : set_color(l, c)
    \/ \E embed_data \in BOOLEAN, minimize_data \in BOOLEAN, override_style \in BOOLEAN,
          w \in EmptyWrites :
          export_interactive_bundle(embed_data, minimize_data, override_style, w)

SpecBundle == Init /\ [][NextBundle]_vars

\* C20 as stated: export_interactive_bundle with options embed_data,
\* minimize_data and override_style leaves the colours and bundles the
\* document and the data that save_vega_json builds with the same options.
C20_Original ==
    [][\A embed_data \in BOOLEAN, minimize_data \in BOOLEAN, override_style \in BOOLEAN,
          w \in EmptyWrites :
          (/\ last'.op = "export_interactive_bundle"
           /\ export_interactive_bundle(embed_data, minimize_data, override_style, w))
          => LET document == SavedRecord(embed_data, minimize_data, override_style, w)
             IN  /\ color' = CheckColors(override_style)
                 /\ saved'.status = document.status
                 /\ saved'.marks = document.marks
                 /\ saved'.data = document.data
                 /\ saved'.csv = document.csv
                 /\ saved'.cols = document.cols]_vars

(***************************************************************************)
(* Column validation: layers built by add_* and layers built directly      *)
(***************************************************************************)
\* Markers(parent=p), Line(parent=p), Range(parent=p): a layer built by its
\* constructor alone; its data trait is not set and no registry holds it
Layer_init(p, k) ==
    /\ Len(kind) < MaxLayers
    /\ p \in Containers
    /\ k \in DataKinds
    /\ NewLayer(p, k, None)
    /\ tbl' = Append(tbl, None)
    /\ tcol' = Append(tcol, None)
    /\ err' = Append(err, None)
    /\ last' = Call("Layer", OK)
    /\ saved' = NoSave
    /\ UNCHANGED <<registry, figLayers, views, yunit, figYlim, figXlim>>

\* layer.column = c
set_column(l, c) ==
    /\ l \in Layers
    /\ kind[l] \in DataKinds
    /\ IF ColumnValidate(tbl[l], c) \in ColumnErrors
       THEN /\ last' = TraitErrorCall("column", c, ColumnValidate(tbl[l], c))
            /\ UNCHANGED col
       ELSE /\ col' = [col EXCEPT ![l] = ColumnValidate(tbl[l], c)]
            /\ last' = Call("column", OK)
    /\ saved' = NoSave
    /\ UNCHANGED <<kind, tbl, tcol, err, color, owner, parent, visible, figLayers, views, yunit,
                   figYlim, figXlim, registry>>

\* the names the callers pass: one column of the tables and one that is none
ColumnNames == {"flux", "flux2"}

NextTraits ==
    \/ \E p \in Containers, k \in {"layers.Markers", "layers.Line"}, c \in ColumnNames :
          add_bound_layer(p, k, c, "ts", None, "time")
    \/ add_view(FALSE, NoArg, NoArg)
    \/ \E p \in Containers : Layer_init(p, "layers.Markers")
    \/ \E l \in Layers, c \in ColumnNames : set_column(l, c)

SpecTraits == Init /\ [][NextTraits]_vars

\* C21: an add_markers/add_line/add_range call with a name that is no column of
\* the table fails with the TraitError '<name> is not a valid column name' and
\* no registry of layers gains an entry; assigning a column to a layer whose
\* data is not set fails with a TraitError and leaves the column as it was
C21_InvalidColumnRejected ==
    [][/\ \A p \in Containers, k \in DataKinds, c \in ColumnNames \ Range(TableColumns) :
            add_bound_layer(p, k, c, "ts", None, "time") =>
                /\ last'.res = "TraitError"
                /\ last'.name = c
                /\ last'.message = NotValidColumn
                /\ figLayers' = figLayers
                /\ \A v \in 1..Len(views) : ViewLayers(views'[v]) = ViewLayers(views[v])
                /\ Len(kind') = Len(kind)
       /\ \A l \in Layers, c \in ColumnNames :
            (tbl[l] = None /\ set_column(l, c)) =>
                /\ last'.res = "TraitError"
                /\ col' = col]_vars

\* an add_* call has just failed on the name flux2, with a layer and a view present
C21_Witness ==
    /\ last.op = "add_layer"
    /\ last.res = "TraitError"
    /\ last.name = "flux2"
    /\ figLayers # <<>>
    /\ views # <<>>

(***************************************************************************)
(* View.show and View.hide with lists of layers                            *)
(***************************************************************************)
NextShow ==
    \/ \E p \in Containers : add_layer(p, "layers.Markers", "flux")
    \/ \E empty \in BOOLEAN : add_view(empty, NoArg, NoArg)
    \/ \E v \in 1..Len(views), ls \in Selections, f \in BOOLEAN : set_visible(v, ls, f)

SpecShow == Init /\ [][NextShow]_vars

\* C22: View.show and View.hide fail with a ValueError when a layer passed is
\* neither local to the view nor inherited by it, and the failed call leaves
\* the visibility of every layer as it was, also when known layers precede
\* the unknown one in the list passed
C22_Original ==
    [][\A v \in 1..Len(views), ls \in Selections, f \in BOOLEAN :
          (set_visible(v, ls, f)
              /\ \E i \in 1..Len(ls) : ls[i] \notin Range(ViewLayers(views[v])))
          => /\ last'.res = NotInViewVisible
             /\ visible' = visible]_vars

(***************************************************************************)
(* The palette: figures that hold up to MaxMarkers layers when first saved *)
(***************************************************************************)
MaxMarkers == 4

\* two classes that colors.py names in neither of its tuples
PaletteKinds == {"layers.VerticalRange", "layers.HorizontalRange"}

\* a figure after n add_vertical_range / add_horizontal_range calls
InitPalette ==
    \E n \in 0..MaxMarkers : \E ks \in [1..n -> PaletteKinds] :
        /\ kind = ks
        /\ col = [i \in 1..n |-> None] /\ tbl = [i \in 1..n |-> None]
        /\ tcol = [i \in 1..n |-> None] /\ err = [i \in 1..n |-> None]
        /\ color = [i \in 1..n |-> None]
        /\ owner = [i \in 1..n |-> Figure] /\ parent = [i \in 1..n |-> Figure]
        /\ visible = [i \in 1..n |-> TRUE]
        /\ figLayers = [i \in 1..n |-> i]
        /\ views = <<>>
        /\ yunit = "auto"
        /\ figYlim = NoLim
        /\ figXlim = NoLim
        /\ registry = <<>>
        /\ last = Call("add_layer", OK)
        /\ saved = NoSave

NextPalette ==
    \/ \E l \in Layers : Figure_remove(l)
    \/ \E o \in BOOLEAN : save_vega_json(o)

SpecPalette == InitPalette /\ [][NextPalette]_vars

\* the loop of auto_assign_colors as the claim reads it: the index wraps at the
\* size of the palette
RECURSIVE ClaimedAssignFrom(_, _, _)
ClaimedAssignFrom(ms, i, offset) ==
    IF i > Len(ms) THEN <<>>
    ELSE LET icolor == Index(MarkersByType(ms, ms[i]), ms[i])
             current == (offset + icolor) % Len(Paired_5)
         IN  <<Paired_5[current + 1]>> \o ClaimedAssignFrom(ms, i + 1, current + 1)

\* C23: auto_assign_colors gives one colour per layer in insertion order, and
\* for the layers coloured from the palette the index advances in insertion
\* order across kinds and wraps modulo the size of the five-colour palette
C23_Original ==
    (last.op = "save_vega_json" /\ saved.override)
    => /\ Len(auto_assign_colors(figLayers)) = Len(figLayers)
       /\ \A i \in 1..Len(figLayers) :
            color[figLayers[i]] = ColorValidate(ClaimedAssignFrom(figLayers, 1, 0)[i])

\* C29: two layers adjacent in insertion order that are both coloured from the
\* palette never receive the same colour from auto_assign_colors
C29_Original ==
    (last.op = "save_vega_json" /\ saved.override)
    => \A i \in 1..(Len(figLayers) - 1) :
          color[figLayers[i]] # color[figLayers[i + 1]]

\* C24: View.hide(L) or View.show(L) on an inherited layer changes the
\* visibility of L in that view only: the visibility recorded for L in the
\* figure's registry and in every other view that inherited L stays as it
\* was, and a view created afterwards inherits L as visible
C24_Original ==
    [][/\ \A v \in 1..Len(views), l \in Layers, f \in BOOLEAN :
            (l \in Range(views[v].inherited) /\ set_visible(v, <<l>>, f))
            => /\ l \in Range(figLayers) => SettingsVisible(Figure, l)' = SettingsVisible(Figure, l)
               /\ \A w \in 1..Len(views) :
                    (w # v /\ l \in Range(views[w].inherited))
                    => SettingsVisible(w, l)' = SettingsVisible(w, l)
       /\ (last'.op = "add_view" /\ last'.res = OK)
            => \A l \in Range(views'[Len(views')].inherited) : SettingsVisible(Len(views'), l)'
      ]_vars

\* C25: in every reachable state the inherited layers of every view are layers
\* of the figure's own registry: no view holds, as inherited, a layer that
\* was removed from the figure or was never in it
C25_InheritedWithinFigure ==
    \A v \in 1..Len(views) : Range(views[v].inherited) \subseteq Range(figLayers)

\* a layer has just been removed from the figure while a view still inherits
\* another one
C25_Witness ==
    /\ last = Call("Figure.remove", OK)
    /\ \E v \in 1..Len(views) : views[v].inherited # <<>>
    /\ Len(figLayers) < Len(kind)

\* the sequence lists no element twice
NoRepeats(s) == \A i, j \in 1..Len(s) : s[i] = s[j] => i = j

\* C26: in every reachable state each layer is in the own registry of at most
\* one container, the figure or a single view, namely the one whose add_* call
\* created it; no view holds a layer both as inherited and as local, and
\* View.layers never lists a layer twice
C26_OneOwnRegistry ==
    /\ \A l \in Range(figLayers) : owner[l] = Figure
    /\ NoRepeats(figLayers)
    /\ \A v \in 1..Len(views) :
          /\ \A l \in Range(views[v].local) : owner[l] = v
          /\ Range(views[v].inherited) \cap Range(views[v].local) = {}
          /\ NoRepeats(ViewLayers(views[v]))

\* with two views registered, a view that inherits the figure's only layer
\* holds a layer of its own as well
C26_Witness ==
    /\ \E v \in 1..Len(views) : views[v].inherited = figLayers /\ views[v].local # <<>>
    /\ Len(figLayers) = 1
    /\ Len(views) = 2

(***************************************************************************)
(* add_markers calls that fail, on two tables, and the saves that follow   *)
(***************************************************************************)
NextFailedAdd ==
    \/ \E p \in Containers, c \in ColumnNames, t \in Tables, x \in {"time", "phase"} :
          add_bound_layer(p, "layers.Markers", c, t, None, x)
    \/ add_view(FALSE, NoArg, NoArg)
    \/ \E minimize_data \in BOOLEAN, w \in EmptyWrites :
          save_vega_json_with(FALSE, minimize_data, FALSE, w)

SpecFailedAdd == Init /\ [][NextFailedAdd]_vars

\* C27: an add_* call that raises leaves the container as it was, neither the
\* registry of layers nor the registry of Data objects gains an entry, so a
\* later save emits no data source for the table of the failed call
C27_Original ==
    [][/\ (last'.op = "add_layer" /\ last'.res # OK)
            => /\ figLayers' = figLayers
               /\ views' = views
               /\ registry' = registry
       /\ (last'.op = "save_vega_json" /\ saved'.status = OK)
            => Range(saved'.data) \subseteq ReferencedTables']_vars

\* the colours serialized by the first save of a figure that was built by the
\* same add_* and remove calls, no colour being set by the caller: every
\* color trait is still None, so each layer gets the colour assigned to it
FirstSaveColors ==
    [i \in 1..Len(figLayers) |-> ColorValidate(auto_assign_colors(figLayers)[i])]

\* C28: the colours a save serializes depend only on the figure's layers and
\* on the colours set by the caller at the time of that save: they are the
\* same whether or not an earlier save was performed in between the calls
\* (stated for figures on which the caller sets no colour)
C28_Original ==
    (last.op = "save_vega_json" /\ saved.status = OK)
    => \A i \in 1..Len(figLayers) : saved.marks[figLayers[i]] = FirstSaveColors[i]

\* C30: in the saved document the per-view descriptors carry pairwise distinct
\* 'name' identifiers: with two or more views no two entries of _views have
\* the same name, and none has the name of another view's container
C30_Original ==
    (last.op = "save_vega_json" /\ saved.status = OK /\ Len(views) >= 2)
    => \A v, w \in DOMAIN saved.viewnames :
          v # w => /\ saved.viewnames[v] # saved.viewnames[w]
                   /\ saved.viewnames[v] # ContainerUuid(w)

====
